---- MODULE Spec2Model ----
(***************************************************************************)
(* A model of src/main.py: the Lambda function that downloads a ZIP file   *)
(* from one S3 bucket and unzips its entries into a bucket of another      *)
(* account.  Strings the program computes with (file names, object keys,   *)
(* prefixes, ARNs, account ids) are sequences of one-character strings;    *)
(* names it only passes on (bucket names, source keys, version ids) are    *)
(* plain strings.  Python's None is the empty tuple <<>> and a present     *)
(* optional value v is the one-element tuple <<v>>.                        *)
(***************************************************************************)
EXTENDS Integers, Sequences, FiniteSets, TLC

VARIABLES
    pc,            \* position of the program
    err,           \* the exception that ended the run ("none" while running)
    errAt,         \* the operation that raised it
    \* ---- get_content_type, called on its own
    filename,      \* its argument
    content_type,  \* its return value (None before it returns)
    \* ---- lambda_handler's inputs
    environ,       \* os.environ: the set of variables that are set
    event,         \* the job description: a dict (function on its present keys)
    arn,           \* context.invoked_function_arn
    \* ---- lambda_handler's locals
    p,             \* index of the pair the first loop (lines 234-258) is at
    retries,       \* line 236
    credentials,   \* line 239 (None before the first assume_role returns)
    i,             \* index of the pair the second loop (lines 260-274) is at
    \* ---- unzip_and_upload_to_target_bucket's parameters and locals
    zip_file,      \* z.namelist(): the archive's entry names, in order
    target_bucket,
    target_prefix,
    delete_old_objects,
    e,             \* index of the entry the upload comprehension is at
    response,      \* the last list_objects_v2 response
    objects,       \* line 179 / 186
    \* ---- the services
    s3,            \* destination buckets: bucket name -> (key -> content type)
    stsIssued,     \* the credentials of STS's last successful response
    \* ---- bookkeeping for the properties
    s3_0,          \* the destination buckets when the run started
    stsCalls,      \* sts.assume_role requests made by the current assume_role call
    stsFailures,   \* ClientErrors among them
    headCalls,     \* head_bucket requests made for the current pair
    headFailures,  \* ClientErrors among them
    called,        \* the service operations requested so far
    published,     \* <<i, bucket, key>> of every successful put_object
    fetched        \* the indexes of the pairs whose archive was requested

vars == <<pc, err, errAt, filename, content_type, environ, event, arn, p, retries,
          credentials, i, zip_file, target_bucket, target_prefix,
          delete_old_objects, e, response, objects, s3, stsIssued, s3_0,
          stsCalls, stsFailures, headCalls, headFailures, called, published,
          fetched>>

----------------------------------------------------------------------------
(* Bounds of the model *)

\* longest file name get_content_type is applied to
MaxNameLen == 3
\* keys per list_objects_v2 page (1000 at S3)
PageSize == 2
\* the counters of assume_role requests saturate after this many failures
MaxStsFailures == 2

----------------------------------------------------------------------------
(* Strings *)

None == <<>>
Some(v) == <<v>>

Range(s) == {s[j] : j \in 1..Len(s)}
Last(s) == s[Len(s)]
Drop(s, n) == SubSeq(s, n + 1, Len(s))

\* the characters of the model, in code point order
Alphabet ==
    <<"-", ".", "/", "0", "1", "2", "3", "4", "5", "6", "7", "8", "9", ":",
      "A", "B", "C", "D", "E", "F", "G", "H", "I", "J", "K", "L", "M",
      "N", "O", "P", "Q", "R", "S", "T", "U", "V", "W", "X", "Y", "Z", "_",
      "a", "b", "c", "d", "e", "f", "g", "h", "i", "j", "k", "l", "m",
      "n", "o", "p", "q", "r", "s", "t", "u", "v", "w", "x", "y", "z">>

Ord(c) == CHOOSE j \in 1..Len(Alphabet) : Alphabet[j] = c

UpperFirst == Ord("A")
UpperLast == Ord("Z")
LowerFirst == Ord("a")

\* str.lower on one character
LowerChar(c) ==
    IF Ord(c) >= UpperFirst /\ Ord(c) <= UpperLast
    THEN Alphabet[Ord(c) - UpperFirst + LowerFirst]
    ELSE c

\* str.lower
Lower(s) == [j \in 1..Len(s) |-> LowerChar(s[j])]

\* str.startswith
StartsWith(s, prefix) ==
    /\ Len(prefix) <= Len(s)
    /\ SubSeq(s, 1, Len(prefix)) = prefix

RECURSIVE SplitFrom(_, _, _)
SplitFrom(s, sep, cur) ==
    IF s = <<>> THEN <<cur>>
    ELSE IF StartsWith(s, sep)
         THEN <<cur>> \o SplitFrom(Drop(s, Len(sep)), sep, <<>>)
         ELSE SplitFrom(Tail(s), sep, Append(cur, s[1]))

\* str.split(sep) and, with no maxsplit, str.rsplit(sep): the pieces between
\* the occurrences of sep, found from the left
Split(s, sep) == SplitFrom(s, sep, <<>>)

\* s < t in the order S3 lists keys in (by code point)
RECURSIVE StrLess(_, _)
StrLess(s, t) ==
    IF s = <<>> THEN t # <<>>
    ELSE IF t = <<>> THEN FALSE
    ELSE IF s[1] = t[1] THEN StrLess(Tail(s), Tail(t))
    ELSE Ord(s[1]) < Ord(t[1])

\* the elements of a set of strings, in that order
RECURSIVE Sorted(_)
Sorted(S) ==
    IF S = {} THEN <<>>
    ELSE LET m == CHOOSE x \in S : \A y \in S \ {x} : StrLess(x, y)
         IN <<m>> \o Sorted(S \ {m})

----------------------------------------------------------------------------
(* get_content_type *)

content_types ==
    (<<"b", "m", "p">> :> "image/bmp") @@
    (<<"c", "s", "s">> :> "text/css") @@
    (<<"g", "i", "f">> :> "image/gif") @@
    (<<"h", "t", "m">> :> "text/html") @@
    (<<"h", "t", "m", "l">> :> "text/html") @@
    (<<"i", "c", "o">> :> "image/x-icon") @@
    (<<"j", "p", "e", "g">> :> "image/jpeg") @@
    (<<"j", "p", "g">> :> "image/jpeg") @@
    (<<"j", "s">> :> "application/x-javascript") @@
    (<<"j", "s", "o", "n">> :> "application/json") @@
    (<<"p", "n", "g">> :> "image/png") @@
    (<<"s", "v", "g">> :> "image/svg+xml")

DefaultContentType == "application/octet-stream"

get_content_type(name) ==
    LET extension == Lower(Last(Split(name, <<".">>)))
    IN IF extension \in DOMAIN content_types
       THEN content_types[extension]
       ELSE DefaultContentType

----------------------------------------------------------------------------
(* The services: S3 and STS *)

\* the Content-Type S3 stores for an object whose writer gave none: the
\* objects that were in a destination bucket before the run
S3DefaultContentType == "binary/octet-stream"

Min(a, b) == IF a < b THEN a ELSE b

EmptyDict == [x \in {} |-> x]

\* the bucket after s3.put_object(Bucket, Key, Body, ContentType): create or overwrite
put_object(bucket, key, ctype) ==
    [k \in DOMAIN bucket \cup {key} |-> IF k = key THEN ctype ELSE bucket[k]]

\* the bucket after s3.delete_objects(Bucket, Delete={"Objects": keys})
delete_objects(bucket, keys) ==
    [k \in DOMAIN bucket \ Range(keys) |-> bucket[k]]

\* the response of s3.list_objects_v2(Bucket, Prefix[, ContinuationToken]): the keys
\* that start with Prefix, in order, from after the token on, PageSize at a time;
\* "Contents" is absent when the page holds no key
list_objects_v2(bucket, prefix, token) ==
    LET keys == Sorted({k \in DOMAIN bucket :
                          /\ StartsWith(k, prefix)
                          /\ token = None \/ StrLess(token[1], k)})
        page == SubSeq(keys, 1, Min(PageSize, Len(keys)))
        truncated == Len(keys) > PageSize
    IN  [IsTruncated |-> truncated]
        @@ (IF page # <<>> THEN [Contents |-> page] ELSE EmptyDict)
        @@ (IF truncated THEN [NextContinuationToken |-> Some(Last(page))] ELSE EmptyDict)

\* the credentials of STS's next successful response: never those of the last one
NextCredentials(last) == IF last = "session-1" THEN "session-2" ELSE "session-1"

----------------------------------------------------------------------------
(* Raising, and the groups of variables *)

ctVars == <<filename, content_type>>
inputVars == <<environ, event, arn, s3_0>>
handlerVars == <<p, retries, credentials, i>>
syncParams == <<zip_file, target_bucket, target_prefix, delete_old_objects>>
syncLocals == <<e, response, objects>>
stsVars == <<stsIssued, stsCalls, stsFailures>>
headVars == <<headCalls, headFailures>>

Raise(exception, at) ==
    /\ pc' = "fatal"
    /\ err' = exception
    /\ errAt' = at

NoError == UNCHANGED <<err, errAt>>

----------------------------------------------------------------------------
(* unzip_and_upload_to_target_bucket *)

\* f"{target_prefix and target_prefix + '/'}"
KeyPrefix(prefix) == IF prefix # <<>> THEN prefix \o <<"/">> ELSE prefix

\* lines 157-159
upload_keys == [j \in 1..Len(zip_file) |-> KeyPrefix(target_prefix) \o zip_file[j]]

\* lines 187-192
old_files(objs) == SelectSeq(objs, LAMBDA key : key \notin Range(upload_keys))

\* where the function goes once the entries from n on are left to upload
AfterPut(zip, n, delete) ==
    IF n <= Len(zip) THEN "put_object"
    ELSE IF delete THEN "list_objects"
    ELSE "sync_done"

\* AfterPage without the loop of lines 180-186: only the first page is read
AfterPage_FirstPageOnly(r, objs) ==
    IF Len(old_files(objs)) > 0 THEN "delete_objects" ELSE "sync_done"

\* where it goes with the listing response r and the keys objs listed so far
AfterPage(r, objs) ==
    IF r["IsTruncated"] THEN "list_objects_next"
    ELSE IF Len(old_files(objs)) > 0 THEN "delete_objects"
    ELSE "sync_done"

\* lines 166-171, entry e: the upload succeeds
PutObject ==
    /\ pc = "put_object"
    /\ s3' = [s3 EXCEPT ![target_bucket] =
                put_object(@, upload_keys[e], get_content_type(zip_file[e]))]
    /\ published' = published \cup {<<i, target_bucket, upload_keys[e]>>}
    /\ called' = called \cup {"put_object"}
    /\ e' = e + 1
    /\ pc' = AfterPut(zip_file, e + 1, delete_old_objects)
    /\ NoError
    /\ UNCHANGED <<ctVars, inputVars, handlerVars, syncParams, response, objects,
                   stsVars, headVars, fetched>>

\* a failed upload that removes what the call had uploaded before it raises
PutObjectFails_RollsBack ==
    /\ pc = "put_object"
    /\ called' = called \cup {"put_object"}
    /\ s3' = [s3 EXCEPT ![target_bucket] =
                delete_objects(@, SubSeq(upload_keys, 1, e - 1))]
    /\ Raise("Exception", "put_object")
    /\ UNCHANGED <<ctVars, inputVars, handlerVars, syncParams, syncLocals,
                   stsVars, headVars, published, fetched>>

\* lines 166-171, entry e: the upload raises
PutObjectFails ==
    /\ pc = "put_object"
    /\ called' = called \cup {"put_object"}
    /\ Raise("Exception", "put_object")
    /\ UNCHANGED <<ctVars, inputVars, handlerVars, syncParams, syncLocals, s3,
                   stsVars, headVars, published, fetched>>

\* lines 176-179: the first page of the listing
ListObjects ==
    /\ pc = "list_objects"
    /\ called' = called \cup {"list_objects_v2"}
    /\ LET r == list_objects_v2(s3[target_bucket], target_prefix, None)
       IN /\ response' = r
          /\ IF "Contents" \in DOMAIN r
             THEN /\ objects' = r["Contents"]
                  /\ pc' = AfterPage(r, r["Contents"])
                  /\ NoError
             ELSE /\ objects' = objects
                  /\ Raise("KeyError", "Contents")
    /\ UNCHANGED <<ctVars, inputVars, handlerVars, syncParams, e, s3,
                   stsVars, headVars, published, fetched>>

\* lines 176-178: the listing raises
ListObjectsFails ==
    /\ pc = "list_objects"
    /\ called' = called \cup {"list_objects_v2"}
    /\ Raise("Exception", "list_objects_v2")
    /\ UNCHANGED <<ctVars, inputVars, handlerVars, syncParams, syncLocals, s3,
                   stsVars, headVars, published, fetched>>

\* lines 180-186: one more page
ListObjectsNext ==
    /\ pc = "list_objects_next"
    /\ called' = called \cup {"list_objects_v2"}
    /\ LET r == list_objects_v2(s3[target_bucket], target_prefix,
                                response["NextContinuationToken"])
       IN /\ response' = r
          /\ IF "Contents" \in DOMAIN r
             THEN /\ objects' = objects \o r["Contents"]
                  /\ pc' = AfterPage(r, objects \o r["Contents"])
                  /\ NoError
             ELSE /\ objects' = objects
                  /\ Raise("KeyError", "Contents")
    /\ UNCHANGED <<ctVars, inputVars, handlerVars, syncParams, e, s3,
                   stsVars, headVars, published, fetched>>

\* lines 181-185: the listing of one more page raises
ListObjectsNextFails ==
    /\ pc = "list_objects_next"
    /\ called' = called \cup {"list_objects_v2"}
    /\ Raise("Exception", "list_objects_v2")
    /\ UNCHANGED <<ctVars, inputVars, handlerVars, syncParams, syncLocals, s3,
                   stsVars, headVars, published, fetched>>

\* lines 197-201: the bulk delete succeeds
DeleteObjects ==
    /\ pc = "delete_objects"
    /\ called' = called \cup {"delete_objects"}
    /\ s3' = [s3 EXCEPT ![target_bucket] = delete_objects(@, old_files(objects))]
    /\ pc' = "sync_done"
    /\ NoError
    /\ UNCHANGED <<ctVars, inputVars, handlerVars, syncParams, syncLocals,
                   stsVars, headVars, published, fetched>>

\* lines 198-201: the bulk delete raises
DeleteObjectsFails ==
    /\ pc = "delete_objects"
    /\ called' = called \cup {"delete_objects"}
    /\ Raise("Exception", "delete_objects")
    /\ UNCHANGED <<ctVars, inputVars, handlerVars, syncParams, syncLocals, s3,
                   stsVars, headVars, published, fetched>>

SyncNext ==
    \/ PutObject
    \/ PutObjectFails
    \/ ListObjects
    \/ ListObjectsFails
    \/ ListObjectsNext
    \/ ListObjectsNextFails
    \/ DeleteObjects
    \/ DeleteObjectsFails

----------------------------------------------------------------------------
(* get_file_from_s3 and the source bucket *)

\* the entry names of the model's archives
FileJs == <<"a", ".", "j", "s">>
FileCss == <<"b", ".", "c", "s", "s">>
FileOld == <<"o", "l", "d">>

\* the source bucket: key -> version id -> the archive's entry names, the
\* last version being the current one
SourceObjects ==
    [artifacts |->
        [site |-> <<[VersionId |-> "v1", Body |-> <<FileJs, FileCss>>],
                    [VersionId |-> "v2", Body |-> <<FileJs>>]>>,
         empty |-> <<[VersionId |-> "v1", Body |-> <<>>]>>]]

\* s3.get_object(Bucket, Key[, VersionId]) on the source account: the body, or
\* None when there is no such bucket, key or version
get_object(bucket, key, version) ==
    IF bucket \notin DOMAIN SourceObjects \/ key \notin DOMAIN SourceObjects[bucket]
    THEN None
    ELSE LET versions == SourceObjects[bucket][key]
             found == IF version = None
                      THEN {Len(versions)}
                      ELSE {j \in 1..Len(versions) : versions[j].VersionId = version[1]}
         IN IF found = {} THEN None
            ELSE Some(versions[CHOOSE j \in found : TRUE].Body)

----------------------------------------------------------------------------
(* get_alias_from_arn and lambda_handler *)

\* line 206: an ARN with an alias has this many segments
ArnSegments == 8
\* line 251: the retry counter above which a failed bucket check is fatal
RetryLimit == 5

AccountMarker == <<"a", "c", "c", "o", "u", "n", "t", "-">>

\* lines 204-211
get_alias_from_arn(a) ==
    IF Len(Split(a, <<":">>)) = ArnSegments
    THEN Some(Last(Split(a, <<":">>)))
    ELSE None

\* Python's truth of an optional string: neither None nor ""
Truthy(opt) == opt # None /\ opt[1] # <<>>

\* line 224 with [0] for [-1]: the piece before the first marker
invoked_by_first(alias) == Split(alias, AccountMarker)[1]

\* line 224
invoked_by(alias) == Last(Split(alias, AccountMarker))

\* lines 223-226: the invoker check raises
InvokerMismatch(a, account_id) ==
    /\ Truthy(get_alias_from_arn(a))
    /\ invoked_by(get_alias_from_arn(a)[1]) # <<>>
    /\ invoked_by(get_alias_from_arn(a)[1]) # account_id

\* the first of the keys, in the order the code reads them, that dict lacks,
\* or None
FirstMissing(dict, keys) ==
    LET missing == {j \in 1..Len(keys) : keys[j] \notin DOMAIN dict}
    IN IF missing = {} THEN None
       ELSE Some(keys[CHOOSE j \in missing : \A k \in missing : j <= k])

pairs == event["s3_source_target_pairs"]

\* pair.get("s3_source_version", None)
SourceVersion(pair) ==
    IF "s3_source_version" \in DOMAIN pair THEN Some(pair["s3_source_version"]) ELSE None

\* lambda_handler leaving delete_old_objects at its default
HandlerDeleteOldObjects_Default == FALSE

\* delete_old_objects as lambda_handler passes it, line 272
HandlerDeleteOldObjects == TRUE

Saturate(n, max) == IF n < max THEN n + 1 ELSE max

\* lines 217-232: the environment and the event are read, the invoker checked
ReadEvent ==
    /\ pc = "start"
    /\ IF "AWS_REGION" \notin environ
       THEN Raise("KeyError", "AWS_REGION")
       ELSE LET missing == FirstMissing(event, <<"account_id", "role_to_assume",
                                                 "s3_source_target_pairs">>)
            IN IF missing # None
               THEN Raise("KeyError", missing[1])
               ELSE IF InvokerMismatch(arn, event["account_id"])
                    THEN Raise("ValueError", "invoked_by")
                    ELSE pc' = "probe_loop" /\ NoError
    /\ UNCHANGED <<ctVars, inputVars, handlerVars, syncParams, syncLocals, s3,
                   stsVars, headVars, called, published, fetched>>

\* lines 234-237: the first loop takes its next pair, or ends
ProbeNextPair ==
    /\ pc = "probe_loop"
    /\ IF p > Len(pairs)
       THEN /\ pc' = "sync_loop"
            /\ NoError
            /\ retries' = retries
            \* no assume_role call and no bucket check is under way any more
            /\ stsCalls' = 0
            /\ stsFailures' = 0
            /\ headCalls' = 0
            /\ headFailures' = 0
       ELSE IF "s3_target_bucket" \notin DOMAIN pairs[p]
            THEN /\ Raise("KeyError", "s3_target_bucket")
                 /\ UNCHANGED <<retries, stsCalls, stsFailures, headVars>>
            ELSE /\ retries' = 0
                 /\ pc' = "assume_role"
                 /\ stsCalls' = 0
                 /\ stsFailures' = 0
                 /\ headCalls' = 0
                 /\ headFailures' = 0
                 /\ NoError
    /\ UNCHANGED <<ctVars, inputVars, p, credentials, i, syncParams, syncLocals, s3,
                   stsIssued, called, published, fetched>>

\* lines 60-66, 76-77 and 239-246: sts.assume_role succeeds, assume_role returns
StsAssumeRole ==
    /\ pc = "assume_role"
    /\ called' = called \cup {"assume_role"}
    /\ stsCalls' = Saturate(stsCalls, MaxStsFailures + 1)
    /\ stsIssued' = NextCredentials(stsIssued)
    /\ credentials' = Some(NextCredentials(stsIssued))
    /\ pc' = "head_bucket"
    /\ NoError
    /\ UNCHANGED <<ctVars, inputVars, p, retries, i, syncParams, syncLocals, s3,
                   stsFailures, headVars, published, fetched>>

\* assume_role giving up at the second ClientError instead of retrying
StsAssumeRoleClientError_GivesUp ==
    /\ pc = "assume_role"
    /\ called' = called \cup {"assume_role"}
    /\ stsCalls' = Saturate(stsCalls, MaxStsFailures + 1)
    /\ stsFailures' = Saturate(stsFailures, MaxStsFailures)
    /\ IF stsFailures >= 1
       THEN Raise("ClientError", "assume_role")
       ELSE pc' = "assume_role" /\ NoError
    /\ UNCHANGED <<ctVars, inputVars, handlerVars, syncParams, syncLocals, s3,
                   stsIssued, headVars, published, fetched>>

\* lines 67-75: sts.assume_role raises a ClientError, assume_role sleeps and retries
StsAssumeRoleClientError ==
    /\ pc = "assume_role"
    /\ called' = called \cup {"assume_role"}
    /\ stsCalls' = Saturate(stsCalls, MaxStsFailures + 1)
    /\ stsFailures' = Saturate(stsFailures, MaxStsFailures)
    /\ pc' = "assume_role"
    /\ NoError
    /\ UNCHANGED <<ctVars, inputVars, handlerVars, syncParams, syncLocals, s3,
                   stsIssued, headVars, published, fetched>>

\* lines 63-65: sts.assume_role raises another exception, which nothing catches
StsAssumeRoleOtherError ==
    /\ pc = "assume_role"
    /\ called' = called \cup {"assume_role"}
    /\ stsCalls' = Saturate(stsCalls, MaxStsFailures + 1)
    /\ Raise("Exception", "assume_role")
    /\ UNCHANGED <<ctVars, inputVars, handlerVars, syncParams, syncLocals, s3,
                   stsIssued, stsFailures, headVars, published, fetched>>

\* lines 247-248: head_bucket succeeds, the first loop goes on to the next pair
HeadBucket ==
    /\ pc = "head_bucket"
    /\ called' = called \cup {"head_bucket"}
    /\ headCalls' = headCalls + 1
    /\ p' = p + 1
    /\ pc' = "probe_loop"
    /\ NoError
    /\ UNCHANGED <<ctVars, inputVars, retries, credentials, i, syncParams, syncLocals,
                   s3, stsVars, headFailures, published, fetched>>

\* the first loop without the test of line 251: a failed bucket check is always retried
HeadBucketClientError_NoLimit ==
    /\ pc = "head_bucket"
    /\ called' = called \cup {"head_bucket"}
    /\ headCalls' = Saturate(headCalls, RetryLimit + 2)
    /\ headFailures' = Saturate(headFailures, RetryLimit + 2)
    /\ retries' = Saturate(retries, RetryLimit + 1)
    /\ pc' = "assume_role"
    /\ stsCalls' = 0
    /\ stsFailures' = 0
    /\ NoError
    /\ UNCHANGED <<ctVars, inputVars, p, credentials, i, syncParams, syncLocals, s3,
                   stsIssued, published, fetched>>

\* lines 249-258: head_bucket raises a ClientError
HeadBucketClientError ==
    /\ pc = "head_bucket"
    /\ called' = called \cup {"head_bucket"}
    /\ headCalls' = headCalls + 1
    /\ headFailures' = headFailures + 1
    /\ IF retries > RetryLimit
       THEN /\ Raise("ClientError", "head_bucket")
            /\ UNCHANGED <<retries, stsCalls, stsFailures>>
       ELSE /\ retries' = retries + 1
            /\ pc' = "assume_role"
            /\ stsCalls' = 0
            /\ stsFailures' = 0
            /\ NoError
    /\ UNCHANGED <<ctVars, inputVars, p, credentials, i, syncParams, syncLocals, s3,
                   stsIssued, published, fetched>>

\* lines 246-247: head_bucket raises another exception, which nothing catches
HeadBucketOtherError ==
    /\ pc = "head_bucket"
    /\ called' = called \cup {"head_bucket"}
    /\ headCalls' = headCalls + 1
    /\ Raise("Exception", "head_bucket")
    /\ UNCHANGED <<ctVars, inputVars, handlerVars, syncParams, syncLocals, s3,
                   stsVars, headFailures, published, fetched>>

\* lines 260-264 and 276: the second loop takes its next pair, or the handler returns
SyncNextPair ==
    /\ pc = "sync_loop"
    /\ IF i > Len(pairs)
       THEN pc' = "done" /\ NoError
       ELSE LET missing == FirstMissing(pairs[i], <<"s3_source_bucket", "s3_source_key",
                                                    "s3_target_bucket">>)
            IN IF missing # None
               THEN Raise("KeyError", missing[1])
               ELSE pc' = "get_object" /\ NoError
    /\ UNCHANGED <<ctVars, inputVars, handlerVars, syncParams, syncLocals, s3,
                   stsVars, headVars, called, published, fetched>>

\* lines 266-274 (80-95, 153-159): the archive is fetched and handed to
\* unzip_and_upload_to_target_bucket
GetObject ==
    /\ pc = "get_object"
    /\ LET pair == pairs[i]
           body == get_object(pair["s3_source_bucket"], pair["s3_source_key"],
                              SourceVersion(pair))
       IN /\ body # None
          /\ zip_file' = body[1]
          /\ target_bucket' = pair["s3_target_bucket"]
          /\ target_prefix' = <<>>
          /\ delete_old_objects' = HandlerDeleteOldObjects
          /\ pc' = AfterPut(body[1], 1, HandlerDeleteOldObjects)
    /\ e' = 1
    /\ called' = called \cup {"get_object"}
    /\ fetched' = fetched \cup {i}
    /\ NoError
    /\ UNCHANGED <<ctVars, inputVars, handlerVars, response, objects, s3,
                   stsVars, headVars, published>>

\* lines 82-93: get_object raises (always, when the object does not exist)
GetObjectFails ==
    /\ pc = "get_object"
    /\ called' = called \cup {"get_object"}
    /\ fetched' = fetched \cup {i}
    /\ Raise("Exception", "get_object")
    /\ UNCHANGED <<ctVars, inputVars, handlerVars, syncParams, syncLocals, s3,
                   stsVars, headVars, published>>

\* line 260: unzip_and_upload_to_target_bucket has returned, on to the next pair
SyncReturn ==
    /\ pc = "sync_done"
    /\ i' = i + 1
    /\ pc' = "sync_loop"
    /\ NoError
    /\ UNCHANGED <<ctVars, inputVars, p, retries, credentials, syncParams, syncLocals,
                   s3, stsVars, headVars, called, published, fetched>>

HandlerNext ==
    \/ ReadEvent
    \/ ProbeNextPair
    \/ StsAssumeRole
    \/ StsAssumeRoleClientError
    \/ StsAssumeRoleOtherError
    \/ HeadBucket
    \/ HeadBucketClientError
    \/ HeadBucketOtherError
    \/ SyncNextPair
    \/ GetObject
    \/ GetObjectFails
    \/ SyncReturn

----------------------------------------------------------------------------
(* get_content_type called on its own *)

\* line 25-52: the call returns
GetContentType ==
    /\ pc = "get_content_type"
    /\ content_type' = Some(get_content_type(filename[1]))
    /\ pc' = "returned"
    /\ NoError
    /\ UNCHANGED <<filename, inputVars, handlerVars, syncParams, syncLocals, s3,
                   stsVars, headVars, called, published, fetched>>

----------------------------------------------------------------------------
(* The inputs *)

\* most pairs in a job description
MaxPairs == 3
\* most entries in the archive of a direct call of unzip_and_upload_to_target_bucket
MaxEntries == 2

\* the sequences over S of length at most n
SeqsUpTo(S, n) == UNION {[1..m -> S] : m \in 0..n}

Without(dict, key) == [k \in DOMAIN dict \ {key} |-> dict[k]]

\* a bucket holding the keys of S, written before the run
BucketOf(S) == [k \in S |-> S3DefaultContentType]

Account111 == <<"1", "1", "1">>
Account222 == <<"2", "2", "2">>

\* an ARN of seven segments: the function invoked by its name
ArnUnqualified ==
    <<"a", "r", "n", ":", "a", "w", "s", ":", "l", "a", "m", "b", "d", "a", ":",
      "e", "u", ":", "1", "2", "3", ":", "f", "u", "n", "c", "t", "i", "o", "n", ":",
      "u", "n", "z", "i", "p">>

Aliases ==
    { AccountMarker \o Account111,      \* "account-111"
      AccountMarker \o Account222,      \* "account-222"
      AccountMarker,                    \* "account-"
      Account222,                       \* "222"
      <<"p", "r", "o", "d">>,           \* "prod"
      <<>> }                            \* "": the ARN ends in a colon

Arns ==
    {ArnUnqualified}
    \cup {ArnUnqualified \o <<":">> \o a : a \in Aliases}
    \cup {ArnUnqualified \o <<":">> \o AccountMarker \o Account222 \o <<":">> \o Account111}

Pair(key, version, target) ==
    [s3_source_bucket |-> "artifacts", s3_source_key |-> key, s3_target_bucket |-> target]
    @@ (IF version # None THEN [s3_source_version |-> version[1]] ELSE EmptyDict)

\* the pairs of the runs: three archives into bucket b1, one into bucket b2
ValidPairs ==
    { Pair("site", Some("v1"), "b1"),
      Pair("site", None, "b1"),
      Pair("empty", None, "b1"),
      Pair("site", None, "b2") }

RequiredPairKeys == {"s3_source_bucket", "s3_source_key", "s3_target_bucket"}

\* the lists of two valid pairs, one of them without one of its required keys
BrokenPairLists ==
    LET first == Pair("site", None, "b1")
        second == Pair("site", Some("v1"), "b1")
    IN {<<Without(first, k), second>> : k \in RequiredPairKeys}
       \cup {<<first, Without(second, k)>> : k \in RequiredPairKeys}

Event(account_id, pairList) ==
    [account_id |-> account_id, role_to_assume |-> "deploy",
     s3_source_target_pairs |-> pairList]

\* the runs that differ in the transfer pairs and in what the buckets hold
DataInputs ==
    {[environ |-> {"AWS_REGION"}, arn |-> ArnUnqualified,
      event |-> Event(Account111, pl),
      s3 |-> [b1 |-> BucketOf(k1), b2 |-> BucketOf(k2)]] :
        pl \in SeqsUpTo(ValidPairs, MaxPairs),
        k1 \in SUBSET {FileJs, FileOld},
        k2 \in {{FileOld}}}

\* the runs that differ in the invoking ARN, the environment and the keys of the event
InvokerInputs ==
    {[environ |-> env, arn |-> a, event |-> ev,
      s3 |-> [b1 |-> BucketOf({FileOld}), b2 |-> BucketOf({})]] :
        env \in {{"AWS_REGION"}, {}},
        a \in Arns,
        ev \in UNION {{Event(acc, <<Pair("site", None, "b1")>>)}
                      \cup {Without(Event(acc, <<Pair("site", None, "b1")>>), k) :
                              k \in {"account_id", "role_to_assume",
                                     "s3_source_target_pairs"}} :
                      acc \in {Account111, Account222}}}

\* the runs in which a pair lacks a required key
BrokenPairInputs ==
    {[environ |-> {"AWS_REGION"}, arn |-> ArnUnqualified,
      event |-> Event(Account111, pl),
      s3 |-> [b1 |-> BucketOf({FileOld}), b2 |-> BucketOf({})]] :
        pl \in BrokenPairLists}

Idle ==
    /\ err = "none"
    /\ errAt = "none"
    /\ filename = None
    /\ content_type = None
    /\ p = 1
    /\ retries = 0
    /\ credentials = None
    /\ i = 1
    /\ e = 1
    /\ response = EmptyDict
    /\ objects = <<>>
    /\ stsIssued = "session-0"
    /\ stsCalls = 0
    /\ stsFailures = 0
    /\ headCalls = 0
    /\ headFailures = 0
    /\ called = {}
    /\ published = {}
    /\ fetched = {}

\* lambda_handler(event, context) is invoked with one of the inputs
InitWith(inputs) ==
    /\ pc = "start"
    /\ \E input \in inputs :
        /\ environ = input.environ
        /\ arn = input.arn
        /\ event = input.event
        /\ s3 = input.s3
        /\ s3_0 = input.s3
    /\ zip_file = <<>>
    /\ target_bucket = None
    /\ target_prefix = <<>>
    /\ delete_old_objects = FALSE
    /\ Idle

Init == InitWith(DataInputs \cup InvokerInputs \cup BrokenPairInputs)

Next == HandlerNext \/ SyncNext

Spec == Init /\ [][Next]_vars

\* most pairs in a job description of the runs checked for termination
MaxLivePairs == 2

LivePairs ==
    { Pair("site", Some("v1"), "b1"),
      Pair("empty", None, "b1"),
      Pair("site", None, "b2") }

LiveInputs ==
    {[environ |-> {"AWS_REGION"}, arn |-> ArnUnqualified,
      event |-> Event(Account111, pl),
      s3 |-> [b1 |-> BucketOf(k1), b2 |-> BucketOf({FileOld})]] :
        pl \in SeqsUpTo(LivePairs, MaxLivePairs),
        k1 \in {{FileJs, FileOld}}}

LiveInit == InitWith(LiveInputs \cup BrokenPairInputs)

\* the program takes its next step whenever it has one; what the services
\* answer is not constrained
LiveSpec == LiveInit /\ [][Next]_vars /\ WF_vars(Next)

\* unzip_and_upload_to_target_bucket(zip_file, "b1", target_prefix, delete_old_objects)
\* is called
SyncPrefix == <<"p">>

SyncInit ==
    /\ zip_file \in SeqsUpTo({FileJs, FileCss}, MaxEntries)
    /\ target_bucket = "b1"
    /\ target_prefix \in {<<>>, SyncPrefix}
    /\ delete_old_objects \in BOOLEAN
    /\ pc = AfterPut(zip_file, 1, delete_old_objects)
    /\ \E keys \in SUBSET {FileJs, FileOld, SyncPrefix \o <<"/">> \o FileJs,
                           SyncPrefix \o <<"/">> \o FileOld, SyncPrefix \o <<"q">>} :
        /\ s3 = [b1 |-> BucketOf(keys)]
        /\ s3_0 = [b1 |-> BucketOf(keys)]
    /\ environ = {}
    /\ arn = <<>>
    /\ event = EmptyDict
    /\ Idle

SyncSpec == SyncInit /\ [][SyncNext]_vars

\* get_content_type(filename) is called
NameChars == {"j", "s", "J", "."}

ContentTypeInit ==
    /\ pc = "get_content_type"
    /\ \E name \in SeqsUpTo(NameChars, MaxNameLen) :
        /\ filename = Some(name)
        /\ content_type = None
    /\ environ = {}
    /\ arn = <<>>
    /\ event = EmptyDict
    /\ s3 = EmptyDict
    /\ s3_0 = EmptyDict
    /\ zip_file = <<>>
    /\ target_bucket = None
    /\ target_prefix = <<>>
    /\ delete_old_objects = FALSE
    /\ err = "none"
    /\ errAt = "none"
    /\ p = 1
    /\ retries = 0
    /\ credentials = None
    /\ i = 1
    /\ e = 1
    /\ response = EmptyDict
    /\ objects = <<>>
    /\ stsIssued = "session-0"
    /\ stsCalls = 0
    /\ stsFailures = 0
    /\ headCalls = 0
    /\ headFailures = 0
    /\ called = {}
    /\ published = {}
    /\ fetched = {}

ContentTypeNext == GetContentType

ContentTypeSpec == ContentTypeInit /\ [][ContentTypeNext]_vars

----------------------------------------------------------------------------
(* What the runs are checked against *)

Keys(bucket) == DOMAIN s3[bucket]

\* the entry names of the archive pair j names
ArchiveOf(j) ==
    get_object(pairs[j]["s3_source_bucket"], pairs[j]["s3_source_key"],
               SourceVersion(pairs[j]))[1]

TargetOf(j) == pairs[j]["s3_target_bucket"]

Terminated == pc \in {"done", "fatal"}

\* C1: when unzip_and_upload_to_target_bucket returns from a call with
\* delete_old_objects=True and an empty target prefix, the keys of the
\* destination bucket are exactly the entry names of the archive.
C1_BucketMirrorsArchive ==
    (pc = "sync_done" /\ delete_old_objects /\ target_prefix = <<>>)
        => Keys(target_bucket) = Range(zip_file)

\* such a call has returned after deleting a key that was in the bucket, having
\* listed more than one page
C1_Witness ==
    /\ pc = "sync_done" /\ delete_old_objects /\ target_prefix = <<>>
    /\ "delete_objects" \in called
    /\ Len(objects) > PageSize
    /\ DOMAIN s3_0[target_bucket] \ Range(zip_file) # {}

\* C10: a call with a non-empty target_prefix P and delete_old_objects=True leaves
\* every object whose key does not start with P followed by "/" as it was.
C10_OtherKeysUntouched ==
    (target_prefix # <<>> /\ delete_old_objects)
        => \A k \in DOMAIN s3_0[target_bucket] :
              ~StartsWith(k, target_prefix \o <<"/">>)
                  => /\ k \in Keys(target_bucket)
                     /\ s3[target_bucket][k] = s3_0[target_bucket][k]

\* C8: get_content_type returns the default type for every file name without a ".".
C8_NoDotGivesDefault ==
    (pc = "returned" /\ "." \notin Range(filename[1]))
        => content_type = Some(DefaultContentType)

\* C9: when lambda_handler returns, every bucket that pairs of the job name holds
\* exactly the entries of the archive of the last pair that names it.
C9_LastPairWins ==
    pc = "done"
        => \A j \in 1..Len(pairs) :
              (\A k \in (j + 1)..Len(pairs) : TargetOf(k) # TargetOf(j))
                  => Keys(TargetOf(j)) = Range(ArchiveOf(j))

\* the handler has returned from a job whose last two pairs name the same bucket,
\* and an entry only the earlier archive has is not in the bucket
C9_Witness ==
    /\ pc = "done"
    /\ Len(pairs) >= 2
    /\ \E j \in 1..(Len(pairs) - 1) :
          /\ TargetOf(j) = TargetOf(Len(pairs))
          /\ \E k \in Range(ArchiveOf(j)) \ Range(ArchiveOf(Len(pairs))) :
                /\ <<j, TargetOf(j), k>> \in published
                /\ k \notin Keys(TargetOf(j))

\* C2: after 6 consecutive failed bucket checks for a pair the probe has aborted
\* with a fatal error, and no 7th check is made.
C2_SixFailuresAbort ==
    /\ headFailures >= 6 => pc = "fatal"
    /\ headCalls <= 6

\* the number of ":" in s
Colons(s) == Cardinality({j \in 1..Len(s) : s[j] = ":"})

\* the last segment of s: what follows its last ":"
LastSegment(s) ==
    LET last == CHOOSE j \in 1..Len(s) : s[j] = ":" /\ \A k \in (j + 1)..Len(s) : s[k] # ":"
    IN SubSeq(s, last + 1, Len(s))

Occurs(sub, s) == \E j \in 0..(Len(s) - Len(sub)) : SubSeq(s, j + 1, j + Len(sub)) = sub

\* id is what follows the last "account-" of segment (all of it, if there is none)
CallerIs(segment, id) ==
    /\ ~Occurs(AccountMarker, id)
    /\ \/ id = segment
       \/ /\ Len(segment) >= Len(id) + Len(AccountMarker)
          /\ SubSeq(segment, Len(segment) - Len(id) + 1, Len(segment)) = id
          /\ SubSeq(segment, Len(segment) - Len(id) - Len(AccountMarker) + 1,
                    Len(segment) - Len(id)) = AccountMarker

Suffixes(s) == {SubSeq(s, j, Len(s)) : j \in 1..(Len(s) + 1)}

NothingRequested == called = {} /\ pc \in {"start", "fatal"}

\* C3 as stated: with an ARN of 8 segments whose last segment gives a caller
\* account id other than the job's account_id, the run is fatal before any request.
C3_MismatchAborts_Stated ==
    (/\ Colons(arn) = 7
     /\ "account_id" \in DOMAIN event
     /\ \E id \in Suffixes(LastSegment(arn)) :
           CallerIs(LastSegment(arn), id) /\ id # event["account_id"])
        => NothingRequested

\* C3, amended: the same when that caller account id is not empty.
C3_MismatchAborts ==
    (/\ Colons(arn) = 7
     /\ "account_id" \in DOMAIN event
     /\ \E id \in Suffixes(LastSegment(arn)) :
           CallerIs(LastSegment(arn), id) /\ id # <<>> /\ id # event["account_id"])
        => NothingRequested

\* the invoker check has raised for an alias that names another account
C3_Witness ==
    /\ pc = "fatal" /\ err = "ValueError"
    /\ LastSegment(arn) = AccountMarker \o Account222
    /\ event["account_id"] = Account111
    /\ called = {}

\* C4: assume_role never gives up on a ClientError, and when it returns it has made
\* one request more than it met failures and returns what the last request issued.
C4_AssumeRoleRetries ==
    /\ ~(pc = "fatal" /\ err = "ClientError" /\ errAt = "assume_role")
    /\ pc = "head_bucket"
          => /\ stsCalls = stsFailures + 1
             /\ credentials = Some(stsIssued)

\* assume_role has returned after as many failures as the model counts
C4_Witness ==
    /\ pc = "head_bucket"
    /\ stsFailures = MaxStsFailures
    /\ stsCalls = MaxStsFailures + 1
    /\ credentials = Some(stsIssued)

DataPathErrors == {"get_object", "put_object", "list_objects_v2", "Contents", "delete_objects"}

DataPathFailure == pc = "fatal" /\ errAt \in DataPathErrors

\* C5 as stated: after a data-path failure at pair i nothing of a later pair was
\* fetched or published, and every published object is in its bucket.
C5_NoRollback_Stated ==
    DataPathFailure
        => /\ fetched \subseteq 1..i
           /\ \A o \in published : o[1] <= i /\ o[3] \in Keys(o[2])

\* C5, amended: every published object is in its bucket unless a pair after the
\* one that published it, up to pair i, names the same bucket with an archive
\* that lacks the key (its reconciliation deleted the object).
C5_NoRollback ==
    DataPathFailure
        => /\ fetched \subseteq 1..i
           /\ \A o \in published :
                 /\ o[1] <= i
                 /\ \/ o[3] \in Keys(o[2])
                    \/ \E j \in (o[1] + 1)..i :
                          TargetOf(j) = o[2] /\ o[3] \notin Range(ArchiveOf(j))

\* an upload of the second pair has failed after the first pair and an earlier
\* entry of the second were published
C5_Witness ==
    /\ DataPathFailure
    /\ errAt = "put_object"
    /\ i = 2
    /\ \E o \in published : o[1] = 1 /\ o[3] \in Keys(o[2])
    /\ \E o \in published : o[1] = 2 /\ o[3] \in Keys(o[2])

\* a required key is missing from the event or from one of its pairs
MissingRequiredField ==
    \/ {"account_id", "role_to_assume", "s3_source_target_pairs"} \ DOMAIN event # {}
    \/ /\ "s3_source_target_pairs" \in DOMAIN event
       /\ \E j \in 1..Len(pairs) : RequiredPairKeys \ DOMAIN pairs[j] # {}

\* C6: when a required field is missing, no destination object is ever published
\* or deleted.
C6_MissingFieldNoMutation ==
    MissingRequiredField => s3 = s3_0 /\ published = {} /\ pc # "done"

\* C7: a run terminates, completed or fatal, unless it stays in assume_role's
\* retry loop for ever.
C7_Terminates == <>Terminated \/ <>[](pc = "assume_role")

\* the handler has returned after failed role assumptions and failed bucket checks
C7_Witness ==
    /\ pc = "done"
    /\ Len(pairs) = MaxLivePairs
    /\ retries > 0
    /\ fetched = 1..MaxLivePairs

====
